---- MODULE Spec2Model ----
(***************************************************************************)
(* Medication assistant backend (src/main.py, src/schemas.py).             *)
(*                                                                         *)
(* The document store holds two collections, doseevent and medication, in  *)
(* natural (insertion) order.  Instants are whole hours since the epoch,   *)
(* the way the store keeps a datetime as one number since the epoch; a     *)
(* datetime value is a record of calendar day, hour of day and UTC offset. *)
(*                                                                         *)
(* The handlers are plain functions that the server runs on worker         *)
(* threads: each access to the store and each reading of the clock is a    *)
(* step of its own, and the steps of different requests interleave.        *)
(* calls[c] holds the local variables of the request worker c is serving.  *)
(*                                                                         *)
(* A status key a document does not carry is Absent.  An optional value    *)
(* is None or Some(v); an operation that can raise gives None when it      *)
(* raises and Some(v) when it returns v.  An inventory field of a          *)
(* medication is Missing (no such key), Null (the key with the value       *)
(* None) or Num(v).                                                        *)
(***************************************************************************)
EXTENDS Integers, Sequences, FiniteSets, TLC

VARIABLES
    doseevent,      \* db["doseevent"]: sequence of dose event documents
    medication,     \* db["medication"]: sequence of medication documents
    now,            \* the wall clock, datetime.now(timezone.utc)
    calls           \* per worker: the request it serves, its locals, its response

vars == <<doseevent, medication, now, calls>>

----------------------------------------------------------------------------
(* Bounds of the model *)

MaxEvents == 2
MaxMeds == 2
MaxTicks == 1

(* Program constants *)

HoursPerDay == 24
HistoryDays == 30
MissedDays == 7

\* datetime.min and datetime.max as days since the epoch: the ordinals of
\* 0001-01-01 and 9999-12-31 less the ordinal of 1970-01-01
MinDay == 1 - 719163
MaxDay == 3652059 - 719163

Absent == "<absent>"

None == <<>>
Some(v) == <<v>>

Missing == <<"missing", 0>>
Null == <<"null", 0>>
Num(v) == <<"int", v>>

Patients == {"p1", "p2"}
StoredMeds == {"m1"}
Statuses == {"scheduled", "taken", "missed", "skipped", Absent}
Clients == {1, 2}

StartClock == 40 * HoursPerDay + 23
Today == StartClock \div HoursPerDay

----------------------------------------------------------------------------
(* datetime *)

\* whether datetime.fromisoformat accepts the string (else ValueError)
ValidIso(s) ==
    /\ s.day \in MinDay..MaxDay
    /\ s.hour \in 0..(HoursPerDay - 1)
    /\ s.off # None => (-HoursPerDay < s.off[1] /\ s.off[1] < HoursPerDay)

\* datetime.fromisoformat: the fields of the string
FromIsoFormat(s) == [day |-> s.day, hour |-> s.hour, tzinfo |-> s.off]

\* dt.replace(tzinfo=timezone.utc)
ReplaceTzUtc(dt) == [dt EXCEPT !.tzinfo = Some(0)]

\* dt.astimezone(timezone.utc): OverflowError (None) when the UTC value is
\* before datetime.min or after datetime.max
AsTimezoneUtc(dt) ==
    LET total == dt.day * HoursPerDay + dt.hour - dt.tzinfo[1]
    IN  IF total < MinDay * HoursPerDay \/ total >= (MaxDay + 1) * HoursPerDay
        THEN None
        ELSE Some([day |-> total \div HoursPerDay, hour |-> total % HoursPerDay,
                   tzinfo |-> Some(0)])

\* the instant an aware datetime is stored and compared as
Instant(dt) == dt.day * HoursPerDay + dt.hour - dt.tzinfo[1]

\* a variant that drops the offset instead of converting by it
ParseScheduled_KeepLocal(iso) ==
    IF ~ValidIso(iso) THEN None
    ELSE Some(Instant(ReplaceTzUtc(FromIsoFormat(iso))))

\* the try block of confirm_dose: None when it raises (the 400 path), else
\* the instant queried
ParseScheduled(iso) ==
    IF ~ValidIso(iso) THEN None
    ELSE LET scheduled == FromIsoFormat(iso)
         IN  IF scheduled.tzinfo = None THEN Some(Instant(ReplaceTzUtc(scheduled)))
             ELSE LET utc == AsTimezoneUtc(scheduled)
                  IN  IF utc = None THEN None ELSE Some(Instant(utc[1]))

\* isoformat() of a stored datetime (read back without an offset)
IsoFormat(t) == [day |-> t \div HoursPerDay, hour |-> t % HoursPerDay, off |-> None]

\* x.isoformat() if x else None
IsoFormatOpt(x) == IF x = None THEN None ELSE Some(IsoFormat(x[1]))

\* _start_end_of_today_utc, its clock reading being t
StartEndOfTodayUtc(t) ==
    LET start == (t \div HoursPerDay) * HoursPerDay
    IN  [start |-> start, end |-> start + HoursPerDay]

----------------------------------------------------------------------------
(* get_today_status *)

\* a variant whose window includes its end ($lte for $lt)
TodayMatches_EndIncluded(ev, user_id, start, end) ==
    /\ ev.user_id = user_id
    /\ ev.scheduled_time >= start
    /\ ev.scheduled_time <= end

\* find({"user_id": user_id, "scheduled_time": {"$gte": start, "$lt": end}})
TodayMatches(ev, user_id, start, end) ==
    /\ ev.user_id = user_id
    /\ ev.scheduled_time >= start
    /\ ev.scheduled_time < end

TodayCursor(store, user_id, start, end) ==
    SelectSeq(store, LAMBDA ev : TodayMatches(ev, user_id, start, end))

\* status = ev.get("status", "scheduled")
StatusOf(ev) == IF ev.status = Absent THEN "scheduled" ELSE ev.status

\* one pass of the for loop
TodayStep(acc, ev) ==
    LET status == StatusOf(ev)
    IN  [taken    |-> acc.taken + (IF status = "taken" THEN 1 ELSE 0),
         missed   |-> acc.missed + (IF status # "taken" /\ status = "missed" THEN 1 ELSE 0),
         upcoming |-> acc.upcoming + (IF status # "taken" /\ status # "missed" THEN 1 ELSE 0),
         items    |-> Append(acc.items,
                        [dose_event_id  |-> ev.id,
                         medication_id  |-> ev.medication_id,
                         scheduled_time |-> IsoFormat(ev.scheduled_time),
                         status         |-> status])]

RECURSIVE TodayLoop(_, _)
TodayLoop(events, acc) ==
    IF events = <<>> THEN acc
    ELSE TodayLoop(Tail(events), TodayStep(acc, Head(events)))

\* the query and the loop over its cursor
TodayCount(store, user_id, start, end) ==
    TodayLoop(TodayCursor(store, user_id, start, end),
              [taken |-> 0, missed |-> 0, upcoming |-> 0, items |-> <<>>])

\* the response, the clock reading for its date being t
TodayResponse(user_id, acc, t) ==
    [user_id     |-> user_id,
     date        |-> t \div HoursPerDay,
     total_doses |-> Len(acc.items),
     taken       |-> acc.taken,
     missed      |-> acc.missed,
     upcoming    |-> acc.upcoming,
     items       |-> acc.items]

\* a call that nothing interleaves with: the clock reads t1 for the window
\* and t2 for the date
TodayStatus(store, user_id, t1, t2) ==
    LET w == StartEndOfTodayUtc(t1)
    IN  TodayResponse(user_id, TodayCount(store, user_id, w.start, w.end), t2)

----------------------------------------------------------------------------
(* confirm_dose *)

\* a variant whose filter leaves out medication_id
ConfirmMatches_AnyMedication(ev, req, scheduled) ==
    /\ ev.user_id = req.user_id
    /\ ev.scheduled_time = scheduled

\* the filter of find_one
ConfirmMatches(ev, req, scheduled) ==
    /\ ev.user_id = req.user_id
    /\ ev.medication_id = req.medication_id
    /\ ev.scheduled_time = scheduled

\* find_one: the position of the first matching document, 0 for None
FindOne(store, req, scheduled) ==
    LET hits == {i \in DOMAIN store : ConfirmMatches(store[i], req, scheduled)}
    IN  IF hits = {} THEN 0
        ELSE CHOOSE i \in hits : \A j \in hits : i <= j

\* a variant that sets the status to a word other than "taken"
UpdateOne_Confirmed(store, id, t) ==
    [i \in DOMAIN store |->
        IF store[i].id = id
        THEN [store[i] EXCEPT !.status = "confirmed", !.taken_time = Some(t)]
        ELSE store[i]]

\* a variant that keeps the taken_time of an event already taken
UpdateOne_KeepFirstTime(store, id, t) ==
    [i \in DOMAIN store |->
        IF store[i].id = id /\ store[i].status # "taken"
        THEN [store[i] EXCEPT !.status = "taken", !.taken_time = Some(t)]
        ELSE store[i]]

\* a variant that sets taken_time and leaves the status
UpdateOne_TimeOnly(store, id, t) ==
    [i \in DOMAIN store |->
        IF store[i].id = id
        THEN [store[i] EXCEPT !.taken_time = Some(t)]
        ELSE store[i]]

\* a variant that updates every event of the found event's patient,
\* medication and scheduled time (update_many on the triple)
UpdateOne_ByTriple(store, id, t) ==
    [i \in DOMAIN store |->
        IF \E k \in DOMAIN store :
                /\ store[k].id = id
                /\ store[i].user_id = store[k].user_id
                /\ store[i].medication_id = store[k].medication_id
                /\ store[i].scheduled_time = store[k].scheduled_time
        THEN [store[i] EXCEPT !.status = "taken", !.taken_time = Some(t)]
        ELSE store[i]]

\* update_one({"_id": id}, {"$set": {"status": "taken", "taken_time": t}})
UpdateOne(store, id, t) ==
    LET hits == {i \in DOMAIN store : store[i].id = id}
    IN  IF hits = {} THEN store
        ELSE LET k == CHOOSE i \in hits : \A j \in hits : i <= j
             IN  [store EXCEPT ![k] = [@ EXCEPT !.status = "taken", !.taken_time = Some(t)]]

\* the try block, find_one and the two early returns: the code of the
\* response raised (0 when none is) and the document found
ConfirmLookup(store, req) ==
    LET scheduled == ParseScheduled(req.scheduled_time_iso)
    IN  IF scheduled = None THEN [code |-> 400, ev |-> None]
        ELSE LET i == FindOne(store, req, scheduled[1])
             IN  IF i = 0 THEN [code |-> 404, ev |-> None]
                 ELSE [code |-> 0, ev |-> Some(store[i])]

\* a call that nothing interleaves with, its clock reading being t: the
\* response code, the document found and the store the call leaves
ConfirmResult(store, t, req) ==
    LET r == ConfirmLookup(store, req)
    IN  IF r.code # 0 THEN [code |-> r.code, ev |-> None, store |-> store]
        ELSE [code  |-> 200,
              ev    |-> r.ev,
              store |-> UpdateOne(store, r.ev[1].id, t)]

----------------------------------------------------------------------------
(* caregiver_dashboard *)

\* insertion of a document into a list ordered by scheduled_time (dir 1 or -1),
\* after the documents that compare equal
RECURSIVE InsertSorted(_, _, _)
InsertSorted(sorted, ev, dir) ==
    IF sorted = <<>> THEN <<ev>>
    ELSE IF dir * Head(sorted).scheduled_time <= dir * ev.scheduled_time
         THEN <<Head(sorted)>> \o InsertSorted(Tail(sorted), ev, dir)
         ELSE <<ev>> \o sorted

\* a variant that leaves the cursor in the store's order
SortByScheduled_Unsorted(events, dir) == events

\* cursor.sort("scheduled_time", dir)
RECURSIVE SortByScheduled(_, _)
SortByScheduled(events, dir) ==
    IF events = <<>> THEN <<>>
    ELSE InsertSorted(SortByScheduled(SubSeq(events, 1, Len(events) - 1), dir),
                      events[Len(events)], dir)

\* find({"user_id": patient_id, "scheduled_time": {"$gte": start_30}})
HistoryMatches(ev, patient_id, start_30) ==
    /\ ev.user_id = patient_id
    /\ ev.scheduled_time >= start_30

\* find({"user_id": patient_id, "status": "missed", "scheduled_time": {"$gte": start_7}})
MissedMatches(ev, patient_id, start_7) ==
    /\ ev.user_id = patient_id
    /\ ev.status = "missed"
    /\ ev.scheduled_time >= start_7

\* list(find(...).sort("scheduled_time", 1)) of the history
HistoryQuery(events, patient_id, start_30) ==
    SortByScheduled(SelectSeq(events, LAMBDA ev : HistoryMatches(ev, patient_id, start_30)), 1)

\* list(find(...).sort("scheduled_time", -1)) of the missed doses
MissedQuery(events, patient_id, start_7) ==
    SortByScheduled(SelectSeq(events, LAMBDA ev : MissedMatches(ev, patient_id, start_7)), -1)

\* _serialize_event
SerializeEvent(e) ==
    [id             |-> e.id,
     medication_id  |-> e.medication_id,
     scheduled_time |-> IsoFormat(e.scheduled_time),
     taken_time     |-> IsoFormatOpt(e.taken_time),
     status         |-> e.status]

\* m.get(field): None for a missing key and for a key holding None
Get(x) == IF x[1] = "int" THEN Some(x[2]) ELSE None

\* int(m.get(field, 0)): 0 for a missing key, TypeError (None) for a key
\* holding None
IntOrZero(x) ==
    IF x = Missing THEN Some(0)
    ELSE IF x = Null THEN None
    ELSE Some(x[2])

\* a variant whose missing threshold is the schema's default of 10
IsLow_SchemaDefault(m) ==
    LET count == IntOrZero(m.inventory_count)
        limit == IF m.low_threshold = Missing THEN Some(10) ELSE IntOrZero(m.low_threshold)
    IN  IF count = None \/ limit = None THEN None
        ELSE Some(count[1] <= limit[1])

\* the condition of the inventory loop: None when either int() raises
IsLow(m) ==
    LET count == IntOrZero(m.inventory_count)
        limit == IntOrZero(m.low_threshold)
    IN  IF count = None \/ limit = None THEN None
        ELSE Some(count[1] <= limit[1])

InventoryAlert(m) ==
    [medication_id   |-> m.id,
     name            |-> m.name,
     inventory_count |-> Get(m.inventory_count),
     low_threshold   |-> Get(m.low_threshold)]

\* the inventory loop: None when a pass raises, else the alerts
RECURSIVE InventoryLoop(_, _)
InventoryLoop(meds, alerts) ==
    IF meds = <<>> THEN Some(alerts)
    ELSE LET low == IsLow(Head(meds))
         IN  IF low = None THEN None
             ELSE InventoryLoop(Tail(meds),
                                IF low[1] THEN Append(alerts, InventoryAlert(Head(meds)))
                                ELSE alerts)

\* list(db["medication"].find({"user_id": patient_id}))
MedsQuery(meds, patient_id) == SelectSeq(meds, LAMBDA m : m.user_id = patient_id)

RECURSIVE MapSerialize(_)
MapSerialize(events) ==
    IF events = <<>> THEN <<>>
    ELSE <<SerializeEvent(Head(events))>> \o MapSerialize(Tail(events))

----------------------------------------------------------------------------
(* The states the store can be in and the requests that arrive *)

Iso(day, hour, off) == [day |-> day, hour |-> hour, off |-> off]

\* today 09:00 UTC, and the midnight that ends today
NineToday == Today * HoursPerDay + 9
Midnight  == (Today + 1) * HoursPerDay

\* 09:00 today and the coming midnight, each written without an offset
PlainStrings == { Iso(Today, 9, None), Iso(Today + 1, 0, None) }

\* a string fromisoformat rejects (hour 24)
BadString == Iso(Today, HoursPerDay, None)

\* strings fromisoformat accepts and astimezone cannot convert: two for one
\* instant before datetime.min, one for an instant after datetime.max
EdgeStrings ==
    { Iso(MinDay, 0, Some(5)), Iso(MinDay, 1, Some(6)), Iso(MaxDay, 23, Some(-5)) }

\* the same two instants written with offsets, an instant no event is
\* scheduled at, the rejected string and the strings at the ends of the range
IsoStrings ==
    PlainStrings \cup EdgeStrings \cup
    { Iso(Today, 9, Some(0)), Iso(Today, 4, Some(-5)), Iso(Today, 10, Some(1)),
      Iso(Today, 19, Some(-5)), Iso(Today + 1, 1, Some(1)),
      Iso(Today, 9, Some(-5)), BadString }

\* a ConfirmDoseRequest
Req(user_id, medication_id, iso) ==
    [user_id |-> user_id, medication_id |-> medication_id, scheduled_time_iso |-> iso]

\* requests for stored events, in two spellings of one instant, and requests
\* that miss by the patient, by the medication, by a string that is rejected
\* and by a string that cannot be converted
Requests ==
    { Req("p1", "m1", Iso(Today, 9, None)),
      Req("p1", "m1", Iso(Today, 4, Some(-5))),
      Req("p1", "m1", Iso(Today + 1, 0, None)),
      Req("p2", "m1", Iso(Today, 9, None)),
      Req("p1", "m2", Iso(Today, 9, None)),
      Req("p1", "m1", BadString),
      Req("p1", "m2", Iso(MinDay, 0, Some(5))) }

ParseRequests == { Req("p1", "m1", s) : s \in IsoStrings }

\* the confirm request served beside a read request
SideRequests == { Req("p1", "m1", Iso(Today, 9, None)) }

\* a DoseEvent document (schemas.py) with the _id the store gave it; one that
\* starts out taken was taken before the clock starts
Event(id, user_id, medication_id, scheduled_time, status) ==
    [id             |-> id,
     user_id        |-> user_id,
     medication_id  |-> medication_id,
     scheduled_time |-> scheduled_time,
     status         |-> status,
     taken_time     |-> IF status = "taken" THEN Some(StartClock - 1) ELSE None]

\* a Medication document (schemas.py) with the _id the store gave it
Med(id, user_id, inventory_count, low_threshold) ==
    [id              |-> id,
     user_id         |-> user_id,
     name            |-> "pill",
     inventory_count |-> inventory_count,
     low_threshold   |-> low_threshold]

\* every collection of at most MaxEvents dose events over the given values
EventStores(users, times, statuses) ==
    LET Shape == [user_id : users, medication_id : StoredMeds,
                  scheduled_time : times, status : statuses]
    IN  UNION { { [i \in 1..n |-> Event(i, f[i].user_id, f[i].medication_id,
                                        f[i].scheduled_time, f[i].status)]
                  : f \in [1..n -> Shape] }
                : n \in 0..MaxEvents }

\* every collection of at most MaxMeds medications: either inventory field
\* missing or a number, and for the first patient also holding None
MedStores ==
    LET Shape == [user_id : Patients,
                  inventory_count : {Missing, Num(5), Num(10), Num(15)},
                  low_threshold : {Missing, Num(10)}]
                 \cup [user_id : {"p1"}, inventory_count : {Null}, low_threshold : {Num(10)}]
                 \cup [user_id : {"p1"}, inventory_count : {Num(5)}, low_threshold : {Null}]
    IN  UNION { { [i \in 1..n |-> Med(i, f[i].user_id, f[i].inventory_count,
                                      f[i].low_threshold)]
                  : f \in [1..n -> Shape] }
                : n \in 0..MaxMeds }

SampleMeds == << Med(1, "p1", Num(5), Num(10)), Med(2, "p2", Num(15), Num(10)) >>

IdleCall == [op |-> "none", pc |-> "idle", code |-> 0]

\* the workers that serve the read requests of a run, and those that serve
\* a confirm request beside them
Readers == {1}
Writers == Clients \ Readers

\* the state a run starts in, given its two collections
Start(events, meds) ==
    /\ doseevent = events
    /\ medication = meds
    /\ now = StartClock
    /\ calls = [c \in Clients |-> IdleCall]

----------------------------------------------------------------------------
(* The steps of the handlers *)

\* time passes
Tick ==
    /\ now < StartClock + MaxTicks
    /\ now' = now + 1
    /\ UNCHANGED <<doseevent, medication, calls>>

\* GET /api/senior/today, line 102: the clock is read for the window
TodayWindow(c, user_id) ==
    /\ calls[c].pc = "idle"
    /\ LET w == StartEndOfTodayUtc(now)
       IN  calls' = [calls EXCEPT ![c] =
                [op |-> "today", pc |-> "window", code |-> 0,
                 user_id |-> user_id, start |-> w.start, end |-> w.end]]
    /\ UNCHANGED <<doseevent, medication, now>>

\* lines 105-126: the loop sends the query and runs over its reply, the
\* matching documents coming in one batch
TodayQuery(c) ==
    /\ calls[c].pc = "window"
    /\ calls' = [calls EXCEPT ![c] =
            [op |-> "today", pc |-> "counted", code |-> 0,
             user_id |-> calls[c].user_id, start |-> calls[c].start, end |-> calls[c].end,
             acc |-> TodayCount(doseevent, calls[c].user_id, calls[c].start, calls[c].end)]]
    /\ UNCHANGED <<doseevent, medication, now>>

\* lines 128-136: the clock is read again for the date, the call returns
TodayReturn(c) ==
    /\ calls[c].pc = "counted"
    /\ calls' = [calls EXCEPT ![c] =
            [op |-> "today", pc |-> "done", code |-> 200,
             user_id |-> calls[c].user_id, start |-> calls[c].start, end |-> calls[c].end,
             acc |-> calls[c].acc,
             resp |-> TodayResponse(calls[c].user_id, calls[c].acc, now)]]
    /\ UNCHANGED <<doseevent, medication, now>>

\* POST /api/senior/confirm, lines 146-162: parse, find_one, the 400 and 404
\* returns; after is the set of workers whose call had returned by then
ConfirmFind(c, req) ==
    /\ calls[c].pc = "idle"
    /\ LET r == ConfirmLookup(doseevent, req)
       IN  calls' = [calls EXCEPT ![c] =
                [op |-> "confirm", pc |-> IF r.code = 0 THEN "found" ELSE "done",
                 code |-> r.code, req |-> req, ev |-> r.ev, stamp |-> None,
                 after |-> {o \in Clients : calls[o].pc = "done"}]]
    /\ UNCHANGED <<doseevent, medication, now>>

\* line 166: the clock is read for taken_time
ConfirmStamp(c) ==
    /\ calls[c].pc = "found"
    /\ calls' = [calls EXCEPT ![c] = [@ EXCEPT !.pc = "stamped", !.stamp = Some(now)]]
    /\ UNCHANGED <<doseevent, medication, now>>

\* a variant that writes only to an event not yet taken and answers 404 otherwise
ConfirmUpdate_OnlyIfNotTaken(c) ==
    /\ calls[c].pc = "stamped"
    /\ LET fresh == \E i \in DOMAIN doseevent :
                        doseevent[i].id = calls[c].ev[1].id /\ doseevent[i].status # "taken"
       IN  /\ doseevent' = IF fresh
                           THEN UpdateOne(doseevent, calls[c].ev[1].id, calls[c].stamp[1])
                           ELSE doseevent
           /\ calls' = [calls EXCEPT ![c] =
                            [@ EXCEPT !.pc = "done", !.code = IF fresh THEN 200 ELSE 404]]
    /\ UNCHANGED <<medication, now>>

\* lines 164-169: the store applies update_one, the call returns ok
ConfirmUpdate(c) ==
    /\ calls[c].pc = "stamped"
    /\ doseevent' = UpdateOne(doseevent, calls[c].ev[1].id, calls[c].stamp[1])
    /\ calls' = [calls EXCEPT ![c] = [@ EXCEPT !.pc = "done", !.code = 200]]
    /\ UNCHANGED <<medication, now>>

\* GET /api/caregiver/dashboard, lines 183-185: the clock is read
DashClock(c, patient_id) ==
    /\ calls[c].pc = "idle"
    /\ calls' = [calls EXCEPT ![c] =
            [op |-> "dashboard", pc |-> "clocked", code |-> 0,
             patient_id |-> patient_id, at |-> now,
             start_30 |-> now - HistoryDays * HoursPerDay,
             start_7 |-> now - MissedDays * HoursPerDay,
             history |-> <<>>, missed |-> <<>>, inventory_alerts |-> <<>>]]
    /\ UNCHANGED <<doseevent, medication, now>>

\* lines 188-191: the history query
DashHistory(c) ==
    /\ calls[c].pc = "clocked"
    /\ calls' = [calls EXCEPT ![c] =
            [@ EXCEPT !.pc = "history",
                      !.history = HistoryQuery(doseevent, calls[c].patient_id,
                                                   calls[c].start_30)]]
    /\ UNCHANGED <<doseevent, medication, now>>

\* lines 194-198: the missed query
DashMissed(c) ==
    /\ calls[c].pc = "history"
    /\ calls' = [calls EXCEPT ![c] =
            [@ EXCEPT !.pc = "missed",
                      !.missed = MissedQuery(doseevent, calls[c].patient_id,
                                                 calls[c].start_7)]]
    /\ UNCHANGED <<doseevent, medication, now>>

\* lines 201-225: the medication query, the inventory loop and the return;
\* a TypeError in the loop ends the call with a 500 and no lists
DashMeds(c) ==
    /\ calls[c].pc = "missed"
    /\ LET alerts == InventoryLoop(MedsQuery(medication, calls[c].patient_id), <<>>)
       IN  calls' = [calls EXCEPT ![c] =
                IF alerts = None
                THEN [@ EXCEPT !.pc = "done", !.code = 500]
                ELSE [@ EXCEPT !.pc = "done", !.code = 200,
                               !.history = MapSerialize(@),
                               !.missed = MapSerialize(@),
                               !.inventory_alerts = alerts[1]]]
    /\ UNCHANGED <<doseevent, medication, now>>

----------------------------------------------------------------------------
(* Confirm requests on both workers beside a today query *)

\* one patient's dose events in every status, or both patients' events at
\* one time
Init ==
    \E events \in EventStores({"p1"}, {NineToday, Midnight}, Statuses)
                    \cup EventStores(Patients, {NineToday}, {"scheduled", "missed"}) :
        Start(events, SampleMeds)

Next ==
    \/ Tick
    \/ \E c \in Clients, req \in Requests : ConfirmFind(c, req)
    \/ \E c \in Clients : ConfirmStamp(c)
    \/ \E c \in Clients : ConfirmUpdate(c)
    \/ \E c \in Readers, user_id \in Patients : TodayWindow(c, user_id)
    \/ \E c \in Clients : TodayQuery(c)
    \/ \E c \in Clients : TodayReturn(c)

Spec == Init /\ [][Next]_vars

----------------------------------------------------------------------------
(* The today query over both patients' dose events, beside a confirm *)

TodayInit ==
    \E events \in EventStores(Patients, {NineToday, Midnight}, Statuses) :
        Start(events, SampleMeds)

TodayNext ==
    \/ Tick
    \/ \E c \in Readers, user_id \in Patients : TodayWindow(c, user_id)
    \/ \E c \in Clients : TodayQuery(c)
    \/ \E c \in Clients : TodayReturn(c)
    \/ \E c \in Writers, req \in SideRequests : ConfirmFind(c, req)
    \/ \E c \in Clients : ConfirmStamp(c)
    \/ \E c \in Clients : ConfirmUpdate(c)

TodaySpec == TodayInit /\ [][TodayNext]_vars

----------------------------------------------------------------------------
(* Confirm requests in every spelling of the scheduled time *)

ParseInit ==
    \E events \in EventStores({"p1"}, {NineToday, Midnight}, {"scheduled", "missed"}) :
        Start(events, SampleMeds)

ParseNext ==
    \/ Tick
    \/ \E c \in Clients, req \in ParseRequests : ConfirmFind(c, req)
    \/ \E c \in Clients : ConfirmStamp(c)
    \/ \E c \in Clients : ConfirmUpdate(c)

ParseSpec == ParseInit /\ [][ParseNext]_vars

----------------------------------------------------------------------------
(* The caregiver dashboard beside a confirm request *)

\* the instants that leave the 30 day and the 7 day window at the first tick
Edge30 == StartClock - HistoryDays * HoursPerDay
Edge7  == StartClock - MissedDays * HoursPerDay

\* dose events that reach the windows with a sample of medications, or
\* every collection of medications with no dose event
DashInit ==
    \/ \E events \in EventStores(Patients, {Edge30, Edge7, NineToday}, {"missed", "taken"}) :
            Start(events, SampleMeds)
    \/ \E meds \in MedStores :
            Start(<<>>, meds)

DashNext ==
    \/ Tick
    \/ \E c \in Readers, patient_id \in Patients : DashClock(c, patient_id)
    \/ \E c \in Clients : DashHistory(c)
    \/ \E c \in Clients : DashMissed(c)
    \/ \E c \in Clients : DashMeds(c)
    \/ \E c \in Writers, req \in SideRequests : ConfirmFind(c, req)
    \/ \E c \in Clients : ConfirmStamp(c)
    \/ \E c \in Clients : ConfirmUpdate(c)

DashSpec == DashInit /\ [][DashNext]_vars

----------------------------------------------------------------------------
(* Properties *)

\* the UTC instant an ISO string denotes: its local time less its offset, a
\* string without an offset being UTC already
Denotes(s) == s.day * HoursPerDay + s.hour - (IF s.off = None THEN 0 ELSE s.off[1])

\* a string of a date from 0001-01-01 to 9999-12-31, an hour of the day and,
\* if any, an offset of less than a day
WellFormed(s) ==
    /\ MinDay <= s.day /\ s.day <= MaxDay
    /\ 0 <= s.hour /\ s.hour < HoursPerDay
    /\ s.off # None => (s.off[1] > -HoursPerDay /\ s.off[1] < HoursPerDay)

\* a well-formed string whose instant is one a datetime can hold: the
\* strings that give a request a scheduled_time
Parses(s) ==
    /\ WellFormed(s)
    /\ MinDay * HoursPerDay <= Denotes(s)
    /\ Denotes(s) <= MaxDay * HoursPerDay + (HoursPerDay - 1)

\* the positions of the dose events with the request's triple
Matching(store, req) ==
    {i \in DOMAIN store :
        /\ store[i].user_id = req.user_id
        /\ store[i].medication_id = req.medication_id
        /\ store[i].scheduled_time = Denotes(req.scheduled_time_iso)}

\* the first of them in the store's order
FirstMatching(store, req) ==
    CHOOSE i \in Matching(store, req) : \A j \in Matching(store, req) : i <= j

\* the position of the dose event with an _id
Pos(id) == CHOOSE i \in DOMAIN doseevent : doseevent[i].id = id

\* this step is the lookup of a confirm_dose call of worker c
FindStep(c) == calls[c].pc = "idle" /\ calls'[c].op = "confirm"

\* this step is the write and return of a confirm_dose call of worker c
UpdateStep(c) == calls[c].pc = "stamped" /\ calls'[c].pc = "done"

\* the instant a serialized scheduled_time stands for
Shown(e) == e.scheduled_time.day * HoursPerDay + e.scheduled_time.hour

\* C1: get_today_status takes its window from the clock as the UTC day of
\* the call, [midnight, next midnight), and counts exactly the patient's dose
\* events scheduled in it, each in one bucket: "taken" in taken, "missed" in
\* missed, any other or absent status in upcoming; the response carries
\* these counts, they add up to total_doses, the number of items; with no
\* event in the window all are 0.
C1_TodayCounts ==
    [][\A c \in Clients :
        /\ (calls[c].pc = "idle" /\ calls'[c].op = "today") =>
                /\ calls'[c].start % HoursPerDay = 0
                /\ calls'[c].start <= now
                /\ now < calls'[c].end
                /\ calls'[c].end = calls'[c].start + HoursPerDay
        /\ (calls[c].pc = "window" /\ calls'[c].pc = "counted") =>
                LET W == {i \in DOMAIN doseevent :
                            /\ doseevent[i].user_id = calls[c].user_id
                            /\ calls[c].start <= doseevent[i].scheduled_time
                            /\ doseevent[i].scheduled_time < calls[c].end}
                    T == {i \in W : doseevent[i].status = "taken"}
                    M == {i \in W : doseevent[i].status = "missed"}
                    n == calls'[c].acc
                IN  /\ n.taken = Cardinality(T)
                    /\ n.missed = Cardinality(M)
                    /\ n.upcoming = Cardinality(W \ (T \cup M))
                    /\ Len(n.items) = Cardinality(W)
                    /\ {n.items[k].dose_event_id : k \in DOMAIN n.items}
                            = {doseevent[i].id : i \in W}
                    /\ W = {} => (n.taken = 0 /\ n.missed = 0 /\ n.upcoming = 0)
        /\ (calls[c].pc = "counted" /\ calls'[c].pc = "done") =>
                LET n == calls[c].acc
                    r == calls'[c].resp
                IN  /\ calls'[c].code = 200
                    /\ r.user_id = calls[c].user_id
                    /\ r.taken = n.taken /\ r.missed = n.missed /\ r.upcoming = n.upcoming
                    /\ r.items = n.items
                    /\ r.total_doses = Len(r.items)
                    /\ r.taken + r.missed + r.upcoming = r.total_doses
                    /\ n.items = <<>> => (r.total_doses = 0 /\ r.taken = 0
                                            /\ r.missed = 0 /\ r.upcoming = 0)
       ]_vars

\* a call whose window was read before midnight and whose date was read
\* after it: of two stored events it counts one, as upcoming, that event's
\* status being neither "taken" nor "missed" nor "scheduled"
C1_Witness ==
    \E c \in Clients :
        /\ calls[c].op = "today" /\ calls[c].pc = "done"
        /\ calls[c].resp.date * HoursPerDay = calls[c].end
        /\ Len(doseevent) = 2
        /\ calls[c].resp.total_doses = 1
        /\ calls[c].resp.upcoming = 1
        /\ \E i \in DOMAIN doseevent :
                /\ doseevent[i].id = calls[c].resp.items[1].dose_event_id
                /\ doseevent[i].status \in {"skipped", Absent}

\* C2: confirm_dose looks the event up at the UTC instant the string denotes
\* (no offset: the time as written; an offset: the time less the offset), so
\* every other string for the same instant, from the same state, finds the
\* same event and, run to its end, gives the same response and store.
C2_SameInstantSameOutcome ==
    [][\A c \in Clients : FindStep(c) =>
        LET req == calls'[c].req
            iso == req.scheduled_time_iso
        IN  /\ calls'[c].pc = "found" =>
                    /\ Parses(iso)
                    /\ calls'[c].ev[1].scheduled_time = Denotes(iso)
                    /\ calls'[c].ev[1] = doseevent[FirstMatching(doseevent, req)]
            /\ calls'[c].code = 404 =>
                    /\ Parses(iso)
                    /\ Matching(doseevent, req) = {}
            /\ \A s \in IsoStrings :
                    (WellFormed(iso) /\ WellFormed(s) /\ Denotes(s) = Denotes(iso)) =>
                        LET other == [req EXCEPT !.scheduled_time_iso = s]
                        IN  /\ ConfirmLookup(doseevent, other).code = calls'[c].code
                            /\ ConfirmLookup(doseevent, other).ev = calls'[c].ev
                            /\ ConfirmResult(doseevent, now, other)
                                    = ConfirmResult(doseevent, now, req)
       ]_vars

\* a confirm with 19:00-05:00 of today has found the event stored at the
\* next UTC midnight and marked it
C2_Witness ==
    \E c \in Clients :
        /\ calls[c].op = "confirm" /\ calls[c].pc = "done"
        /\ calls[c].code = 200
        /\ calls[c].req.scheduled_time_iso = Iso(Today, 19, Some(-5))
        /\ calls[c].ev[1].scheduled_time = Midnight
        /\ \E i \in DOMAIN doseevent :
                /\ doseevent[i].scheduled_time = Midnight
                /\ doseevent[i].status = "taken"
                /\ doseevent[i].taken_time = calls[c].stamp

\* C3: when no dose event has the (user_id, medication_id, scheduled_time)
\* triple of a request whose string gave it a scheduled_time, confirm_dose
\* answers 404 at its lookup, which leaves both collections as they were,
\* and the call takes no further step.
C3_NotFoundNoMutation ==
    [][\A c \in Clients :
        /\ (/\ FindStep(c)
            /\ Parses(calls'[c].req.scheduled_time_iso)
            /\ Matching(doseevent, calls'[c].req) = {})
           => /\ calls'[c].pc = "done"
              /\ calls'[c].code = 404
              /\ doseevent' = doseevent
              /\ medication' = medication
        /\ calls[c].pc = "done" => calls'[c] = calls[c]
       ]_vars

\* a 404 for a request that misses a stored event by its medication alone
C3_Witness ==
    \E c \in Clients :
        /\ calls[c].op = "confirm" /\ calls[c].pc = "done"
        /\ calls[c].code = 404
        /\ \E i \in DOMAIN doseevent :
                /\ doseevent[i].user_id = calls[c].req.user_id
                /\ doseevent[i].scheduled_time = Denotes(calls[c].req.scheduled_time_iso)
                /\ doseevent[i].medication_id # calls[c].req.medication_id
                /\ doseevent[i].status = "scheduled"

\* C4 as stated: every change of a dose event's status is from "scheduled"
\* (the default of an event without the field) to "taken".
C4_OnlyScheduledToTaken ==
    [][\A i \in DOMAIN doseevent :
            (i \in DOMAIN doseevent' /\ doseevent'[i].status # doseevent[i].status) =>
                /\ StatusOf(doseevent[i]) = "scheduled"
                /\ doseevent'[i].status = "taken"
       ]_vars

\* C4 amended: every change to a dose event's status is made by the write of
\* a confirm_dose call that found the event, and is a change to "taken" from
\* whatever other status the event had; a taken event stays taken: so the
\* status of an event changes at most once.
C4_AnyToTakenOnce ==
    [][/\ Len(doseevent') = Len(doseevent)
       /\ \A i \in DOMAIN doseevent :
            /\ doseevent'[i].status # doseevent[i].status =>
                    /\ doseevent[i].status # "taken"
                    /\ doseevent'[i].status = "taken"
                    /\ \E c \in Clients :
                            /\ UpdateStep(c)
                            /\ calls'[c].code = 200
                            /\ calls[c].ev[1].id = doseevent[i].id
                            /\ i = FirstMatching(doseevent, calls[c].req)
            /\ doseevent[i].status = "taken" => doseevent'[i].status = "taken"
       ]_vars

\* a confirm has found a missed event and made it taken
C4_Witness ==
    \E c \in Clients :
        /\ calls[c].op = "confirm" /\ calls[c].pc = "done"
        /\ calls[c].code = 200
        /\ calls[c].ev[1].status = "missed"
        /\ \E i \in DOMAIN doseevent :
                /\ doseevent[i].id = calls[c].ev[1].id
                /\ doseevent[i].status = "taken"
                /\ doseevent[i].taken_time = calls[c].stamp

\* worker b serves a confirm that arrived after the confirm of worker a had
\* returned ok, for the same patient, medication and instant
InSequence(a, b) ==
    /\ a # b
    /\ calls[a].op = "confirm" /\ calls[a].pc = "done" /\ calls[a].code = 200
    /\ calls[b].op = "confirm"
    /\ a \in calls[b].after
    /\ calls[b].req.user_id = calls[a].req.user_id
    /\ calls[b].req.medication_id = calls[a].req.medication_id
    /\ WellFormed(calls[b].req.scheduled_time_iso)
    /\ Denotes(calls[b].req.scheduled_time_iso) = Denotes(calls[a].req.scheduled_time_iso)

\* C5: a successful confirm followed by a confirm of the same triple: the
\* second finds the same event and answers ok too; its write changes no
\* status; after it the event is "taken" and its taken_time is the clock
\* reading of the second confirm, which is not before that of the first.
C5_ReconfirmIdempotent ==
    /\ [](\A a, b \in Clients : InSequence(a, b) =>
            /\ calls[b].code \in {0, 200}
            /\ calls[b].ev # None
            /\ calls[b].ev[1].id = calls[a].ev[1].id
            /\ calls[b].ev[1].status = "taken"
            /\ doseevent[Pos(calls[a].ev[1].id)].status = "taken"
            /\ calls[b].pc = "done" =>
                    /\ calls[b].code = 200
                    /\ doseevent[Pos(calls[a].ev[1].id)].taken_time = calls[b].stamp
                    /\ calls[b].stamp[1] >= calls[a].stamp[1])
    /\ [][\A a, b \in Clients : (InSequence(a, b) /\ UpdateStep(b)) =>
            /\ Len(doseevent') = Len(doseevent)
            /\ \A i \in DOMAIN doseevent : doseevent'[i].status = doseevent[i].status
         ]_vars

\* the second of two confirms in sequence has written a later clock reading
\* over the taken_time the first had written
C5_Witness ==
    \E a, b \in Clients :
        /\ InSequence(a, b)
        /\ calls[b].pc = "done"
        /\ calls[b].ev[1].taken_time = calls[a].stamp
        /\ calls[a].stamp[1] < calls[b].stamp[1]
        /\ calls[a].req.scheduled_time_iso # calls[b].req.scheduled_time_iso
        /\ doseevent[Pos(calls[b].ev[1].id)].taken_time = calls[b].stamp

\* C6: across the write of a successful confirm_dose on an event of patient
\* p that is scheduled today (UTC) and counts as upcoming, get_today_status
\* for p on that day goes from its counts before the write to the same
\* total_doses and missed, taken one more and upcoming one less.
C6_TodayAfterConfirm ==
    [][\A c \in Clients :
        (/\ UpdateStep(c)
         /\ LET e == doseevent[Pos(calls[c].ev[1].id)]
            IN  /\ e.scheduled_time \div HoursPerDay = now \div HoursPerDay
                /\ e.status \notin {"taken", "missed"})
        => LET p      == calls[c].req.user_id
               before == TodayStatus(doseevent, p, now, now)
               after  == TodayStatus(doseevent', p, now', now')
           IN  /\ calls'[c].code = 200
               /\ after.date = before.date
               /\ after.total_doses = before.total_doses
               /\ after.taken = before.taken + 1
               /\ after.upcoming = before.upcoming - 1
               /\ after.missed = before.missed
       ]_vars

\* a confirm has found an event of today that counted as upcoming, and a
\* today query of the patient has then counted it as the one taken event
\* beside another that is upcoming
C6_Witness ==
    \E c, d \in Clients :
        /\ calls[c].op = "confirm" /\ calls[c].pc = "done"
        /\ calls[c].code = 200
        /\ calls[c].ev[1].status \in {"scheduled", "skipped", Absent}
        /\ calls[c].ev[1].scheduled_time \div HoursPerDay = now \div HoursPerDay
        /\ calls[d].op = "today" /\ calls[d].pc = "done"
        /\ calls[d].user_id = calls[c].req.user_id
        /\ calls[d].resp.total_doses = 2
        /\ calls[d].resp.taken = 1
        /\ calls[d].resp.upcoming = 1
        /\ {i \in DOMAIN doseevent : doseevent[i].status = "taken"}
                = {Pos(calls[c].ev[1].id)}

\* C7: the history query gives exactly the patient's dose events scheduled
\* at or after now - 30 days, in non-decreasing scheduled_time; the missed
\* query gives exactly those with status "missed" scheduled at or after
\* now - 7 days, in non-increasing scheduled_time; now is the clock reading
\* of the call, the events are those of the store at each query, and the
\* response carries the two lists, each event serialized.
C7_HistoryAndMissed ==
    [][\A c \in Clients :
        /\ (calls[c].pc = "idle" /\ calls'[c].op = "dashboard") => calls'[c].at = now
        /\ (calls[c].pc = "clocked" /\ calls'[c].pc = "history") =>
                LET H == {i \in DOMAIN doseevent :
                            /\ doseevent[i].user_id = calls[c].patient_id
                            /\ doseevent[i].scheduled_time
                                    >= calls[c].at - HistoryDays * HoursPerDay}
                    h == calls'[c].history
                IN  /\ Len(h) = Cardinality(H)
                    /\ {h[k] : k \in DOMAIN h} = {doseevent[i] : i \in H}
                    /\ \A k \in 1..(Len(h) - 1) :
                            h[k].scheduled_time <= h[k + 1].scheduled_time
        /\ (calls[c].pc = "history" /\ calls'[c].pc = "missed") =>
                LET M == {i \in DOMAIN doseevent :
                            /\ doseevent[i].user_id = calls[c].patient_id
                            /\ doseevent[i].status = "missed"
                            /\ doseevent[i].scheduled_time
                                    >= calls[c].at - MissedDays * HoursPerDay}
                    m == calls'[c].missed
                IN  /\ Len(m) = Cardinality(M)
                    /\ {m[k] : k \in DOMAIN m} = {doseevent[i] : i \in M}
                    /\ \A k \in 1..(Len(m) - 1) :
                            m[k].scheduled_time >= m[k + 1].scheduled_time
                    /\ calls'[c].history = calls[c].history
        /\ (calls[c].pc = "missed" /\ calls'[c].code = 200) =>
                LET h == calls'[c].history
                    m == calls'[c].missed
                IN  /\ Len(h) = Len(calls[c].history)
                    /\ Len(m) = Len(calls[c].missed)
                    /\ \A k \in DOMAIN h :
                            /\ h[k].id = calls[c].history[k].id
                            /\ h[k].status = calls[c].history[k].status
                            /\ Shown(h[k]) = calls[c].history[k].scheduled_time
                    /\ \A k \in DOMAIN m :
                            /\ m[k].id = calls[c].missed[k].id
                            /\ m[k].status = "missed"
                            /\ Shown(m[k]) = calls[c].missed[k].scheduled_time
                    /\ \A k \in 1..(Len(h) - 1) : Shown(h[k]) <= Shown(h[k + 1])
                    /\ \A k \in 1..(Len(m) - 1) : Shown(m[k]) >= Shown(m[k + 1])
       ]_vars

\* two missed events of the patient, the later stored first, one of them
\* out of the 7 day window: history lists both, the later last; missed
\* lists one
C7_Witness ==
    \E c \in Clients :
        /\ calls[c].op = "dashboard" /\ calls[c].pc = "done" /\ calls[c].code = 200
        /\ Len(doseevent) = 2
        /\ Len(calls[c].history) = 2
        /\ calls[c].history[1].id = 2 /\ calls[c].history[2].id = 1
        /\ Shown(calls[c].history[1]) < Shown(calls[c].history[2])
        /\ doseevent[1].scheduled_time > doseevent[2].scheduled_time
        /\ calls[c].history[1].status = "missed" /\ calls[c].history[2].status = "missed"
        /\ Len(calls[c].missed) = 1

\* C8: in a dashboard response a medication of the patient is in
\* inventory_alerts exactly when its inventory_count <= its low_threshold, a
\* missing count being 0 and a missing threshold being 0.
C8_InventoryAlerts ==
    \A c \in Clients :
        (calls[c].op = "dashboard" /\ calls[c].pc = "done" /\ calls[c].code = 200) =>
            LET alerts == calls[c].inventory_alerts
                flagged == {alerts[k].medication_id : k \in DOMAIN alerts}
                count(m) == IF m.inventory_count = Missing THEN 0 ELSE m.inventory_count[2]
                limit(m) == IF m.low_threshold = Missing THEN 0 ELSE m.low_threshold[2]
            IN  /\ \A i \in DOMAIN medication :
                        medication[i].id \in flagged <=>
                            /\ medication[i].user_id = calls[c].patient_id
                            /\ count(medication[i]) <= limit(medication[i])
                /\ Len(alerts) = Cardinality(flagged)

\* a medication with neither field is flagged, one with count 15 and
\* threshold 10 of the same patient is not
C8_Witness ==
    \E c \in Clients :
        /\ calls[c].op = "dashboard" /\ calls[c].pc = "done" /\ calls[c].code = 200
        /\ Len(calls[c].inventory_alerts) = 1
        /\ calls[c].inventory_alerts[1].inventory_count = None
        /\ calls[c].inventory_alerts[1].low_threshold = None
        /\ \E i, j \in DOMAIN medication :
                /\ medication[i].user_id = calls[c].patient_id
                /\ medication[i].inventory_count = Num(15)
                /\ medication[i].low_threshold = Num(10)
                /\ medication[j].user_id = calls[c].patient_id
                /\ medication[j].inventory_count = Missing
                /\ medication[j].low_threshold = Missing

\* an event as the store held it at the start: no confirm has written to it
Untouched(e) == e = Event(e.id, e.user_id, e.medication_id, e.scheduled_time, e.status)

\* C9: two confirm_dose calls that found the same dose event, their reads,
\* clock readings and writes interleaved in any order, both answer ok; the
\* event ends "taken" with the taken_time of one of the two calls; every
\* step of a call writes to the event it found and to nothing else.
C9_ConcurrentConverge ==
    /\ [](\A id \in 1..Len(doseevent) :
            (\A c \in Clients : /\ calls[c].op = "confirm" /\ calls[c].pc = "done"
                                /\ calls[c].ev # None /\ calls[c].ev[1].id = id) =>
                /\ \A c \in Clients : calls[c].code = 200
                /\ \E i \in DOMAIN doseevent :
                        /\ doseevent[i].id = id
                        /\ doseevent[i].status = "taken"
                        /\ \E c \in Clients : doseevent[i].taken_time = calls[c].stamp
                /\ \A i \in DOMAIN doseevent :
                        doseevent[i].id # id => Untouched(doseevent[i]))
    /\ [][/\ Len(doseevent') = Len(doseevent)
          /\ medication' = medication
          /\ \A i \in DOMAIN doseevent :
                doseevent'[i] # doseevent[i] =>
                    \E c \in Clients :
                        /\ calls[c].pc = "stamped"
                        /\ calls'[c].pc = "done"
                        /\ calls[c].ev[1].id = doseevent[i].id
                        /\ doseevent'[i] = [doseevent[i] EXCEPT !.status = "taken",
                                                                !.taken_time = calls[c].stamp]
         ]_vars

\* both calls found the first of two scheduled events before either wrote,
\* read the clock at different instants, and the earlier reading was written
\* last: the event's taken_time is behind the other call's
C9_Witness ==
    /\ \A c \in Clients :
            /\ calls[c].op = "confirm" /\ calls[c].pc = "done" /\ calls[c].code = 200
            /\ calls[c].ev[1].id = 1 /\ calls[c].ev[1].status = "scheduled"
    /\ calls[1].stamp[1] < calls[2].stamp[1]
    /\ Len(doseevent) = 2
    /\ doseevent[1].taken_time = calls[1].stamp
    /\ doseevent[2].status = "scheduled"

\* C10: the write of a successful confirm_dose changes the status and
\* taken_time of the one dose event the call found, which is the first with
\* the request's triple, and nothing else: the event's other fields, every
\* other dose event, the number of dose events and the medication collection
\* stay as they were; no other step of the call changes either collection.
C10_ConfirmFrame ==
    [][\A c \in Clients :
        /\ (calls[c].op = "confirm" \/ calls'[c].op = "confirm") =>
                /\ medication' = medication
                /\ Len(doseevent') = Len(doseevent)
                /\ (calls'[c] # calls[c] /\ ~UpdateStep(c)) => doseevent' = doseevent
        /\ UpdateStep(c) =>
                /\ calls'[c].code = 200
                /\ Matching(doseevent, calls[c].req) # {}
                /\ LET k == FirstMatching(doseevent, calls[c].req)
                   IN  /\ doseevent[k].id = calls[c].ev[1].id
                       /\ doseevent' = [doseevent EXCEPT ![k] =
                                [@ EXCEPT !.status = "taken", !.taken_time = calls[c].stamp]]
                       /\ doseevent'[k].id = doseevent[k].id
                       /\ doseevent'[k].user_id = doseevent[k].user_id
                       /\ doseevent'[k].medication_id = doseevent[k].medication_id
                       /\ doseevent'[k].scheduled_time = doseevent[k].scheduled_time
                       /\ \A j \in DOMAIN doseevent : j # k => doseevent'[j] = doseevent[j]
       ]_vars

\* of two scheduled events with the same triple the confirm has marked the
\* first and left the second
C10_Witness ==
    \E c \in Clients :
        /\ calls[c].op = "confirm" /\ calls[c].pc = "done"
        /\ calls[c].code = 200
        /\ \A d \in Clients : d # c => calls[d].op # "confirm"
        /\ Len(doseevent) = 2
        /\ doseevent[1].user_id = doseevent[2].user_id
        /\ doseevent[1].scheduled_time = doseevent[2].scheduled_time
        /\ calls[c].ev[1].id = 1
        /\ calls[c].ev[1].status = "scheduled"
        /\ doseevent[1].status = "taken"
        /\ doseevent[1].taken_time = calls[c].stamp
        /\ doseevent[2].status = "scheduled"
        /\ doseevent[2].taken_time = None

====
